---- MODULE Spec2Model ----
(***************************************************************************)
(* VolumeEMAStrategy (src/strategies/BigFrish/__init__.py): entry filters, *)
(* entry execution, trailing stop and Telegram notification.               *)
(*                                                                         *)
(* Numbers.  The strategy computes on floats; the model computes on exact  *)
(* integers.  Percent hyperparameters are held in tenths of a percent      *)
(* (tp_percent 4.0 is 40), volume_multiplier in tenths (10.0 is 100), and  *)
(* prices in thousandths of a quote unit, market prices being multiples of *)
(* 1000, so that x * (1 +/- p / 100) is the exact integer                  *)
(* x * (1000 +/- p) \div 1000.  Float rounding is not modelled.            *)
(*                                                                         *)
(* Host.  Candles, indicator series (ta.ema, ta.rsi), position_size        *)
(* (utils.size_to_qty), the position and requests.post belong to the host  *)
(* framework and libraries; their results are inputs drawn from small sets.*)
(***************************************************************************)
EXTENDS Integers, Sequences, FiniteSets, TLC

VARIABLES
    hp,             \* self.hp: the hyperparameter values of the run
    volume,         \* self.candles[:, 5]: the volume of each candle of the window
    ema_volume,     \* ta.ema(candles[:, 5], ema_volume_length): one value per candle
    volume_rsi,     \* ta.rsi(candles[:, 5], 14)[-1]: the latest value
    ema_trend,      \* ta.ema(candles[:, 2], ema_price_trend)[-1]: the latest value
    open,           \* self.open of the current candle
    close,          \* self.close of the current candle
    price,          \* self.price
    position_size,  \* the quantity utils.size_to_qty returns
    position,       \* self.position: side, entry_price, qty
    buy,            \* self.buy
    sell,           \* self.sell
    take_profit,    \* self.take_profit
    stop_loss,      \* self.stop_loss
    telegram_sent,  \* self.telegram_sent
    ret,            \* the last filter called and the value it returned
    signal,         \* what should_long() and should_short() returned on this tick
    call            \* the last handler run: its name, the POSTs it attempted,
                    \* how the POST ended, whether an exception left the handler

vars == <<hp, volume, ema_volume, volume_rsi, ema_trend, open, close, price,
          position_size, position, buy, sell, take_profit, stop_loss,
          telegram_sent, ret, signal, call>>

market == <<volume, ema_volume, volume_rsi, ema_trend, open, close, price, position_size>>
orders == <<buy, sell, take_profit, stop_loss>>

-----------------------------------------------------------------------------
(* Bounds and sample sets *)

\* longest candle window drawn
MaxLen == 3

\* an order that is not set (None)
None == <<>>

\* (volume, volume EMA) of one candle: no volume at all, volume under the EMA,
\* volume exactly 10 x EMA, volume just over 10 x EMA
Bars == { <<0, 0>>, <<0, 20>>, <<230, 23>>, <<231, 23>> }

RECURSIVE Windows(_)
Windows(n) ==
    IF n = 0 THEN { <<>> }
    ELSE { Append(w, b) : w \in Windows(n - 1), b \in Bars }

\* every window of 1..MaxLen candles
AllWindows == UNION { Windows(n) : n \in 1..MaxLen }

Column(w, k) == [i \in 1..Len(w) |-> w[i][k]]

\* market prices, in thousandths
Prices == { 95000, 98000, 100000, 102000, 105000 }

Quantities == { 2 }

\* requests.post either returns or raises (timeout, connection error)
PostOutcomes == { "ok", "error" }

-----------------------------------------------------------------------------
(* Hyperparameters *)

hyperparameters ==
    [ ema_volume_length    |-> 1400,
      volume_multiplier    |-> 100,
      ema_price_trend      |-> 1440,
      use_volume_growth    |-> TRUE,
      min_growth_percent   |-> 150,
      growth_lookback      |-> 5,
      use_sustained_volume |-> TRUE,
      min_consecutive_bars |-> 2,
      use_volume_rsi       |-> TRUE,
      min_volume_rsi       |-> 55,
      tp_percent           |-> 40,
      sl_percent           |-> 20,
      use_trailing_stop    |-> TRUE,
      trail_activation     |-> 20,
      trail_offset         |-> 10,
      use_ema_sl           |-> TRUE,
      telegram_token       |-> "",
      telegram_chat_id     |-> "" ]

\* the declared range of each numeric hyperparameter, in the model's units
InRange(h) ==
    /\ h.volume_multiplier \in 50..200
    /\ h.min_growth_percent \in 50..300
    /\ h.growth_lookback \in 2..10
    /\ h.min_consecutive_bars \in 1..5
    /\ h.min_volume_rsi \in 40..70
    /\ h.tp_percent \in 10..100
    /\ h.sl_percent \in 5..50
    /\ h.trail_activation \in 10..50
    /\ h.trail_offset \in 5..30

\* settings of the filter hyperparameters
FilterHP ==
    { [hyperparameters EXCEPT !.use_volume_growth = g, !.use_sustained_volume = s,
                              !.use_volume_rsi = r, !.volume_multiplier = m,
                              !.min_growth_percent = mg, !.growth_lookback = lb,
                              !.min_consecutive_bars = mc] :
        g \in BOOLEAN, s \in BOOLEAN, r \in BOOLEAN, m \in {50, 100},
        mg \in {150, 300}, lb \in {2, 3}, mc \in {1, 2} }

-----------------------------------------------------------------------------
(* Indicators *)

current_volume == volume[Len(volume)]

\* a percentage as the fraction num / den, den > 0
ema_volume_growth_clamped ==
    LET lookback == hp.growth_lookback
        n == Len(ema_volume)
        back == IF n < lookback + 1 THEN n - 1 ELSE lookback
        current_ema == ema_volume[n]
        past_ema == ema_volume[n - back]
    IN  IF past_ema = 0 THEN [num |-> 0, den |-> 1]
        ELSE [num |-> (current_ema - past_ema) * 100, den |-> past_ema]

ema_volume_growth ==
    LET lookback == hp.growth_lookback
        n == Len(ema_volume)
    IN  IF n < lookback + 1 THEN [num |-> 0, den |-> 1]
        ELSE LET current_ema == ema_volume[n]
                 past_ema == ema_volume[n - lookback]
             IN  IF past_ema = 0 THEN [num |-> 0, den |-> 1]
                 ELSE [num |-> (current_ema - past_ema) * 100, den |-> past_ema]

RECURSIVE CountFrom(_)
CountFrom(i) ==
    IF i < 1 THEN 0
    ELSE IF volume[i] > ema_volume[i] THEN 1 + CountFrom(i - 1)
    ELSE 0

consecutive_volume_bars == CountFrom(Len(volume))

-----------------------------------------------------------------------------
(* Volume filters *)

check_volume_growth ==
    IF ~hp.use_volume_growth THEN TRUE
    ELSE ema_volume_growth.num * 10 >= hp.min_growth_percent * ema_volume_growth.den

check_sustained_volume ==
    IF ~hp.use_sustained_volume THEN TRUE
    ELSE consecutive_volume_bars >= hp.min_consecutive_bars

check_volume_rsi_filter_unguarded ==
    volume_rsi >= hp.min_volume_rsi

check_volume_rsi_filter ==
    IF ~hp.use_volume_rsi THEN TRUE
    ELSE volume_rsi >= hp.min_volume_rsi

volume_spike_inclusive ==
    current_volume * 10 >= ema_volume[Len(ema_volume)] * hp.volume_multiplier

volume_spike ==
    current_volume * 10 > ema_volume[Len(ema_volume)] * hp.volume_multiplier

-----------------------------------------------------------------------------
(* Entry conditions *)

should_long_any_trend ==
    LET is_bullish == close > open
    IN  /\ is_bullish /\ volume_spike
        /\ check_volume_growth /\ check_sustained_volume /\ check_volume_rsi_filter

should_long ==
    LET is_bullish == close > open
        above_trend == close > ema_trend
        volume_ok == volume_spike
        growth_ok == check_volume_growth
        sustained_ok == check_sustained_volume
        rsi_ok == check_volume_rsi_filter
    IN  is_bullish /\ above_trend /\ volume_ok /\ growth_ok /\ sustained_ok /\ rsi_ok

\* nothing evaluated yet on this tick
NoSignal == [called |-> {}, long |-> FALSE, short |-> FALSE]

should_short_copied_from_long ==
    LET is_bearish == close > open
        below_trend == close > ema_trend
    IN  /\ is_bearish /\ below_trend /\ volume_spike
        /\ check_volume_growth /\ check_sustained_volume /\ check_volume_rsi_filter

should_short ==
    LET is_bearish == close < open
        below_trend == close < ema_trend
        volume_ok == volume_spike
        growth_ok == check_volume_growth
        sustained_ok == check_sustained_volume
        rsi_ok == check_volume_rsi_filter
    IN  is_bearish /\ below_trend /\ volume_ok /\ growth_ok /\ sustained_ok /\ rsi_ok

-----------------------------------------------------------------------------
(* Position management *)

\* x * k / 1000, exact when x is a multiple of 1000
Scale(x, k) == (x * k) \div 1000

is_long == position.side = "long"
is_short == position.side = "short"

Flat == [side |-> "flat", entry_price |-> 0, qty |-> 0]

\* settings of the entry and notification hyperparameters
EntryHP ==
    { [hyperparameters EXCEPT !.growth_lookback = 2, !.tp_percent = tp, !.sl_percent = sl,
                              !.use_ema_sl = e, !.telegram_token = tok,
                              !.telegram_chat_id = chat] :
        tp \in {10, 40, 100}, sl \in {5, 20, 50}, e \in BOOLEAN,
        tok \in {"", "123:abc"}, chat \in {"", "42"} }

\* settings of the trailing-stop hyperparameters
TrailHP ==
    { [hyperparameters EXCEPT !.growth_lookback = 2, !.use_trailing_stop = t,
                              !.trail_activation = a, !.trail_offset = o,
                              !.use_ema_sl = e] :
        t \in BOOLEAN, a \in {10, 20, 50}, o \in {5, 10, 30}, e \in BOOLEAN }

TradeHP == EntryHP \cup TrailHP

\* the notification of an entry: the POSTs attempted, how the POST ended, and
\* whether an exception leaves the function
send_telegram_notification_uncaught(outcome) ==
    LET token == hp.telegram_token
        chat_id == hp.telegram_chat_id
    IN  IF token = "" \/ chat_id = ""
        THEN [posts |-> 0, outcome |-> "none", raised |-> FALSE]
        ELSE [posts |-> 1, outcome |-> outcome, raised |-> outcome = "error"]

send_telegram_notification_both_empty(outcome) ==
    LET token == hp.telegram_token
        chat_id == hp.telegram_chat_id
    IN  IF token = "" /\ chat_id = ""
        THEN [posts |-> 0, outcome |-> "none", raised |-> FALSE]
        ELSE [posts |-> 1, outcome |-> outcome, raised |-> FALSE]

send_telegram_notification(outcome) ==
    LET token == hp.telegram_token
        chat_id == hp.telegram_chat_id
    IN  IF token = "" \/ chat_id = ""
        THEN [posts |-> 0, outcome |-> "none", raised |-> FALSE]
        ELSE [posts |-> 1, outcome |-> outcome, raised |-> FALSE]

Handler(fn, sent) ==
    [fn |-> fn, posts |-> sent.posts, outcome |-> sent.outcome, raised |-> sent.raised]

NoPost == [posts |-> 0, outcome |-> "none", raised |-> FALSE]

go_long_stop_above ==
    IF hp.use_ema_sl THEN ema_trend
    ELSE price + Scale(price, hp.sl_percent)

go_long_stop ==
    IF hp.use_ema_sl THEN ema_trend
    ELSE price - Scale(price, hp.sl_percent)

go_short_stop ==
    IF hp.use_ema_sl THEN ema_trend
    ELSE price + Scale(price, hp.sl_percent)

GoLong ==
    /\ position.side = "flat" /\ buy = None /\ sell = None
    /\ \E outcome \in PostOutcomes :
        LET qty == position_size
            tp == price + Scale(price, hp.tp_percent)
            sl == go_long_stop
        IN  /\ buy' = <<qty, price>>
            /\ take_profit' = <<qty, tp>>
            /\ stop_loss' = <<qty, sl>>
            /\ call' = Handler("go_long", send_telegram_notification(outcome))
    /\ UNCHANGED <<hp, market, position, sell, telegram_sent, ret, signal>>

GoShort ==
    /\ position.side = "flat" /\ buy = None /\ sell = None
    /\ \E outcome \in PostOutcomes :
        LET qty == position_size
            tp == price - Scale(price, hp.tp_percent)
            sl == go_short_stop
        IN  /\ sell' = <<qty, price>>
            /\ take_profit' = <<qty, tp>>
            /\ stop_loss' = <<qty, sl>>
            /\ call' = Handler("go_short", send_telegram_notification(outcome))
    /\ UNCHANGED <<hp, market, position, buy, telegram_sent, ret, signal>>

\* the host fills the entry order at its price and calls on_open_position
OnOpenPosition ==
    /\ position.side = "flat"
    /\ buy # None \/ sell # None
    /\ position' = IF buy # None
                   THEN [side |-> "long", entry_price |-> buy[2], qty |-> buy[1]]
                   ELSE [side |-> "short", entry_price |-> sell[2], qty |-> sell[1]]
    /\ telegram_sent' = FALSE
    /\ call' = Handler("on_open_position", NoPost)
    /\ UNCHANGED <<hp, market, orders, ret, signal>>

\* the host delivers a new price (the close of the current candle) while the
\* position is open
PriceTick ==
    /\ position.side # "flat"
    /\ \E p \in Prices : price' = p /\ close' = p
    /\ UNCHANGED <<hp, volume, ema_volume, volume_rsi, ema_trend, open, position_size,
                   position, orders, telegram_sent, ret, signal, call>>

\* the stop-loss a long position has after update_position
trail_long_unconditional ==
    LET activation_price == Scale(position.entry_price, 1000 + hp.trail_activation)
    IN  IF price >= activation_price
        THEN <<position.qty, Scale(price, 1000 - hp.trail_offset)>>
        ELSE stop_loss

trail_long ==
    LET activation_price == Scale(position.entry_price, 1000 + hp.trail_activation)
    IN  IF price >= activation_price
        THEN LET new_sl == Scale(price, 1000 - hp.trail_offset)
             IN  IF new_sl > stop_loss[2] THEN <<position.qty, new_sl>> ELSE stop_loss
        ELSE stop_loss

\* the stop-loss a short position has after update_position
trail_short_always_active ==
    LET new_sl == Scale(price, 1000 + hp.trail_offset)
    IN  IF new_sl < stop_loss[2] THEN <<position.qty, new_sl>> ELSE stop_loss

trail_short ==
    LET activation_price == Scale(position.entry_price, 1000 - hp.trail_activation)
    IN  IF price <= activation_price
        THEN LET new_sl == Scale(price, 1000 + hp.trail_offset)
             IN  IF new_sl < stop_loss[2] THEN <<position.qty, new_sl>> ELSE stop_loss
        ELSE stop_loss

UpdatePosition ==
    /\ stop_loss' = IF ~hp.use_trailing_stop THEN stop_loss
                    ELSE IF is_long THEN trail_long
                    ELSE IF is_short THEN trail_short
                    ELSE stop_loss
    /\ call' = Handler("update_position", NoPost)
    /\ UNCHANGED <<hp, market, position, buy, sell, take_profit, telegram_sent, ret, signal>>

\* the notification of a close: on_close_position's own copy of the send
close_notification(outcome) ==
    IF hp.telegram_token = "" \/ hp.telegram_chat_id = ""
    THEN [posts |-> 0, outcome |-> "none", raised |-> FALSE]
    ELSE [posts |-> 1, outcome |-> outcome, raised |-> FALSE]

\* the host closes the position (take-profit or stop-loss hit, or closed from
\* outside), drops the orders of the trade and calls on_close_position
OnClosePosition ==
    /\ position.side # "flat"
    /\ position' = Flat
    /\ buy' = None /\ sell' = None /\ take_profit' = None /\ stop_loss' = None
    /\ \E outcome \in PostOutcomes :
        call' = Handler("on_close_position", close_notification(outcome))
    /\ UNCHANGED <<hp, market, telegram_sent, ret, signal>>

Returned(fn, val) == [fn |-> fn, val |-> val]

\* before any handler has run: no position, no orders, nothing returned
Idle ==
    /\ position_size \in Quantities
    /\ position = Flat
    /\ buy = None /\ sell = None /\ take_profit = None /\ stop_loss = None
    /\ telegram_sent = FALSE
    /\ ret = Returned("none", FALSE)
    /\ signal = NoSignal
    /\ call = Handler("init", NoPost)

\* a spiking candle window on which every filter passes with the defaults
\* and growth_lookback = 2
SpikeWindow == << <<230, 20>>, <<230, 20>>, <<231, 23>> >>

Init ==
    /\ hp \in TradeHP /\ InRange(hp)
    /\ volume = Column(SpikeWindow, 1)
    /\ ema_volume = Column(SpikeWindow, 2)
    /\ volume_rsi = 55
    /\ price \in {98000, 100000, 102000}
    /\ close = price
    /\ open \in {price - 1000, price + 1000}
    /\ ema_trend \in {97000, 100000, 103000}
    /\ Idle

Next ==
    \/ GoLong
    \/ GoShort
    \/ OnOpenPosition
    \/ PriceTick
    \/ UpdatePosition
    \/ OnClosePosition

Spec == Init /\ [][Next]_vars

-----------------------------------------------------------------------------
(* The filters and the entry signals, applied to drawn candle windows *)

CheckVolumeGrowth ==
    /\ ret' = Returned("check_volume_growth", check_volume_growth)
    /\ UNCHANGED <<hp, market, position, orders, telegram_sent, signal, call>>

CheckSustainedVolume ==
    /\ ret' = Returned("check_sustained_volume", check_sustained_volume)
    /\ UNCHANGED <<hp, market, position, orders, telegram_sent, signal, call>>

CheckVolumeRsiFilter ==
    /\ ret' = Returned("check_volume_rsi_filter", check_volume_rsi_filter)
    /\ UNCHANGED <<hp, market, position, orders, telegram_sent, signal, call>>

VolumeSpike ==
    /\ ret' = Returned("volume_spike", volume_spike)
    /\ UNCHANGED <<hp, market, position, orders, telegram_sent, signal, call>>

ShouldLong ==
    /\ "should_long" \notin signal.called
    /\ signal' = [signal EXCEPT !.called = @ \cup {"should_long"}, !.long = should_long]
    /\ UNCHANGED <<hp, market, position, orders, telegram_sent, ret, call>>

ShouldShort ==
    /\ "should_short" \notin signal.called
    /\ signal' = [signal EXCEPT !.called = @ \cup {"should_short"}, !.short = should_short]
    /\ UNCHANGED <<hp, market, position, orders, telegram_sent, ret, call>>

InitFilter ==
    /\ hp \in FilterHP /\ InRange(hp)
    /\ \E w \in AllWindows : volume = Column(w, 1) /\ ema_volume = Column(w, 2)
    /\ volume_rsi \in {54, 55}
    /\ price = 100000 /\ close = price /\ open = price /\ ema_trend = price
    /\ Idle

NextFilter ==
    \/ CheckVolumeGrowth
    \/ CheckSustainedVolume
    \/ CheckVolumeRsiFilter
    \/ VolumeSpike

SpecFilter == InitFilter /\ [][NextFilter]_vars

InitSignal ==
    /\ hp \in FilterHP /\ InRange(hp)
    /\ \E w \in AllWindows : volume = Column(w, 1) /\ ema_volume = Column(w, 2)
    /\ volume_rsi \in {54, 55}
    /\ price = 100000 /\ close = price
    /\ open \in {99000, 100000, 101000}
    /\ ema_trend \in {97000, 100000, 103000}
    /\ Idle

NextSignal ==
    \/ ShouldLong
    \/ ShouldShort

SpecSignal == InitSignal /\ [][NextSignal]_vars

-----------------------------------------------------------------------------
(* Properties *)

InsufficientHistory == Len(ema_volume) < hp.growth_lookback + 1

\* C1: while a long position stays open the stop-loss price never decreases
\* from one step to the next, whatever the price does between two
\* update_position calls; while a short position stays open it never increases.
C1_TrailingStopRatchet ==
    [][ /\ (position.side = "long" /\ position'.side = "long")
            => stop_loss'[2] >= stop_loss[2]
        /\ (position.side = "short" /\ position'.side = "short")
            => stop_loss'[2] <= stop_loss[2] ]_vars

\* a long position whose stop was trailed up at 105 and kept when the price
\* fell back to a level whose candidate is lower
C1_Witness ==
    /\ is_long /\ call.fn = "update_position" /\ hp.use_trailing_stop
    /\ price * 1000 >= position.entry_price * (1000 + hp.trail_activation)
    /\ price < 105000
    /\ stop_loss[2] = (105000 * (1000 - hp.trail_offset)) \div 1000
    /\ stop_loss[2] > (price * (1000 - hp.trail_offset)) \div 1000

\* C2 as stated: check_volume_growth returns true when the filter is disabled
\* and also when it is enabled with fewer than growth_lookback + 1 values.
C2_PassOnInsufficientHistory ==
    (ret.fn = "check_volume_growth" /\ (~hp.use_volume_growth \/ InsufficientHistory))
        => ret.val = TRUE

\* C2 amended: check_volume_growth returns true when the filter is disabled;
\* enabled with fewer than growth_lookback + 1 values the growth is 0 percent,
\* below every min_growth_percent of the declared range, and it returns false.
C2_FailOnInsufficientHistory ==
    ret.fn = "check_volume_growth" =>
        /\ ~hp.use_volume_growth => ret.val = TRUE
        /\ (hp.use_volume_growth /\ InsufficientHistory) => ret.val = FALSE

C2_Witness ==
    /\ ret.fn = "check_volume_growth" /\ hp.use_volume_growth /\ InsufficientHistory
    /\ ema_volume[Len(ema_volume)] > ema_volume[1]
    /\ ret.val = FALSE

\* C3: on one tick should_long() and should_short() are never both true.
C3_SignalsExclusive ==
    ~(signal.long /\ signal.short)

C3_Witness ==
    /\ signal.called = {"should_long", "should_short"}
    /\ signal.long /\ ~signal.short

\* C4: should_long() is true exactly when the candle closed above its open and
\* above the trend EMA, the latest volume is strictly above volume_multiplier
\* times the latest volume EMA, and the three filters pass; should_short() the
\* same with the candle closing below its open and below the trend EMA.
C4_EntryConditions ==
    LET spike == current_volume * 10 > hp.volume_multiplier * ema_volume[Len(ema_volume)]
        filters == check_volume_growth /\ check_sustained_volume /\ check_volume_rsi_filter
    IN  /\ "should_long" \in signal.called =>
              (signal.long <=> (close > open /\ close > ema_trend /\ spike /\ filters))
        /\ "should_short" \in signal.called =>
              (signal.short <=> (close < open /\ close < ema_trend /\ spike /\ filters))

\* a bullish candle above the trend whose volume is exactly volume_multiplier
\* times the volume EMA, every filter passing: no long signal
C4_Witness ==
    /\ "should_long" \in signal.called /\ ~signal.long
    /\ close > open /\ close > ema_trend
    /\ current_volume > 0
    /\ current_volume * 10 = hp.volume_multiplier * ema_volume[Len(ema_volume)]
    /\ check_volume_growth /\ check_sustained_volume /\ check_volume_rsi_filter

\* C5: a filter whose flag is false returns true whatever the indicators are.
C5_DisabledFilterPasses ==
    /\ (ret.fn = "check_volume_growth" /\ ~hp.use_volume_growth) => ret.val = TRUE
    /\ (ret.fn = "check_sustained_volume" /\ ~hp.use_sustained_volume) => ret.val = TRUE
    /\ (ret.fn = "check_volume_rsi_filter" /\ ~hp.use_volume_rsi) => ret.val = TRUE

\* the disabled volume-RSI filter called with an RSI under min_volume_rsi
C5_Witness ==
    /\ ret.fn = "check_volume_rsi_filter" /\ ~hp.use_volume_rsi
    /\ volume_rsi < hp.min_volume_rsi
    /\ ret.val = TRUE

\* C6: go_long leaves a buy at the price, a take-profit at
\* price * (1 + tp_percent / 100) and a stop-loss at the trend EMA if
\* use_ema_sl, else at price * (1 - sl_percent / 100), all for one quantity;
\* go_short leaves a sell, the take-profit at price * (1 - tp_percent / 100)
\* and the stop-loss at the trend EMA or price * (1 + sl_percent / 100).
C6_EntryOrders ==
    LET qty == position_size
    IN  /\ call.fn = "go_long" =>
            /\ buy = <<qty, price>>
            /\ take_profit = <<qty, (price * (1000 + hp.tp_percent)) \div 1000>>
            /\ stop_loss = <<qty, IF hp.use_ema_sl THEN ema_trend
                                  ELSE (price * (1000 - hp.sl_percent)) \div 1000>>
        /\ call.fn = "go_short" =>
            /\ sell = <<qty, price>>
            /\ take_profit = <<qty, (price * (1000 - hp.tp_percent)) \div 1000>>
            /\ stop_loss = <<qty, IF hp.use_ema_sl THEN ema_trend
                                  ELSE (price * (1000 + hp.sl_percent)) \div 1000>>

C6_Witness ==
    /\ call.fn = "go_long" /\ ~hp.use_ema_sl
    /\ stop_loss[2] < price /\ take_profit[2] > price

\* C7: with telegram_token or telegram_chat_id empty, go_long, go_short and
\* on_close_position attempt no POST and return normally.
C7_NoCredentialsNoPost ==
    (/\ call.fn \in {"go_long", "go_short", "on_close_position"}
     /\ (hp.telegram_token = "" \/ hp.telegram_chat_id = ""))
        => (call.posts = 0 /\ ~call.raised)

C7_Witness ==
    /\ call.fn = "go_long"
    /\ hp.telegram_token # "" /\ hp.telegram_chat_id = ""
    /\ call.posts = 0

\* C8: when the POST raises, the handler returns normally, the POST was
\* attempted once, and the orders are those of the same handler after a
\* successful send.
C8_PostFailureSwallowed ==
    call.outcome = "error" =>
        /\ ~call.raised
        /\ call.posts = 1
        /\ call.fn = "go_long" =>
            /\ buy = <<position_size, price>> /\ sell = None
            /\ take_profit = <<position_size, price + (price * hp.tp_percent) \div 1000>>
            /\ stop_loss = <<position_size, IF hp.use_ema_sl THEN ema_trend
                             ELSE price - (price * hp.sl_percent) \div 1000>>
        /\ call.fn = "go_short" =>
            /\ sell = <<position_size, price>> /\ buy = None
            /\ take_profit = <<position_size, price - (price * hp.tp_percent) \div 1000>>
            /\ stop_loss = <<position_size, IF hp.use_ema_sl THEN ema_trend
                             ELSE price + (price * hp.sl_percent) \div 1000>>
        /\ call.fn = "on_close_position" =>
            /\ position = Flat
            /\ orders = <<None, None, None, None>>

C8_Witness ==
    /\ call.fn = "on_close_position" /\ call.outcome = "error"
    /\ call.posts = 1 /\ ~call.raised

\* C9: update_position replaces the stop-loss exactly when use_trailing_stop
\* is set, a position is open, the price is at or past the activation level
\* and the candidate is strictly better than the stop; otherwise the
\* stop-loss is unchanged; the take-profit, buy and sell never change.
C9_UpdatePositionFrame ==
    [][ UpdatePosition =>
        LET long_candidate == (price * (1000 - hp.trail_offset)) \div 1000
            short_candidate == (price * (1000 + hp.trail_offset)) \div 1000
            replace_long ==
                /\ hp.use_trailing_stop /\ position.side = "long"
                /\ price * 1000 >= position.entry_price * (1000 + hp.trail_activation)
                /\ long_candidate > stop_loss[2]
            replace_short ==
                /\ hp.use_trailing_stop /\ position.side = "short"
                /\ price * 1000 <= position.entry_price * (1000 - hp.trail_activation)
                /\ short_candidate < stop_loss[2]
        IN  /\ replace_long => stop_loss' = <<position.qty, long_candidate>>
            /\ replace_short => stop_loss' = <<position.qty, short_candidate>>
            /\ (~replace_long /\ ~replace_short) => stop_loss' = stop_loss
            /\ take_profit' = take_profit /\ buy' = buy /\ sell' = sell ]_vars

\* a short position below its activation level whose stop was just trailed down
C9_Witness ==
    /\ is_short /\ call.fn = "update_position" /\ hp.use_trailing_stop
    /\ price * 1000 <= position.entry_price * (1000 - hp.trail_activation)
    /\ stop_loss = <<position.qty, (price * (1000 + hp.trail_offset)) \div 1000>>
    /\ take_profit # None

\* C10: after go_long on a tick where should_long() is true and the price is
\* the candle close, the stop-loss is strictly below the entry price and the
\* take-profit strictly above it; after go_short where should_short() is
\* true, the stop-loss is strictly above and the take-profit strictly below.
C10_BracketSides ==
    /\ (call.fn = "go_long" /\ should_long /\ price = close)
        => (stop_loss[2] < buy[2] /\ take_profit[2] > buy[2])
    /\ (call.fn = "go_short" /\ should_short /\ price = close)
        => (stop_loss[2] > sell[2] /\ take_profit[2] < sell[2])

C10_Witness ==
    /\ call.fn = "go_long" /\ should_long /\ price = close
    /\ hp.use_ema_sl /\ stop_loss[2] = ema_trend

====
